---------------------------- MODULE Spec2Model ----------------------------
(***************************************************************************)
(* PageRank rank-iteration engine of src/pagerankBasic.hxx:                *)
(*   pagerankBasicSeqLoop / pagerankBasicOmpLoop (the iteration loop) and   *)
(*   the four drivers pagerankBasicSeq, pagerankBasicOmp,                   *)
(*   pagerankBasicDynamicTraversalSeq, pagerankBasicDynamicTraversalOmp.    *)
(*                                                                         *)
(* Ranks (type V, floating point in the source) are fixed-point integers:  *)
(* the real x is the integer x * ONE, every division rounds down.          *)
(* Dense vertex positions are 1..N here (0..N-1 in the source).            *)
(***************************************************************************)
EXTENDS Integers, Sequences, FiniteSets, TLC

\* ------------------------------------------------------------------ bounds
\* largest iteration cap L a run is given
MaxL == 2
\* workers of the multi-worker loop (omp_get_max_threads)
NumThreads == 2
\* how many failure flags may be set during one run
MaxCrashes == 1

\* --------------------------------------------------------------- numerics
\* the fixed-point unit: the value 1.0 of type V
ONE == 12000
\* damping factor P = PNum / PDen (0.85, the documented default)
PNum == 17
PDen == 20
\* error function selectors EF
L1Norm == 1
L2Norm == 2
LiNorm == 3

Abs(x) == IF x < 0 THEN -x ELSE x

Max2(x, y) == IF x < y THEN y ELSE x

RECURSIVE SumF(_, _)
\* sum of f[x] for x in S
SumF(f, S) ==
  IF S = {} THEN 0
  ELSE LET x == CHOOSE y \in S : TRUE IN f[x] + SumF(f, S \ {x})

RECURSIVE MaxF(_, _)
\* maximum of f[x] for x in S (0 for the empty set)
MaxF(f, S) ==
  IF S = {} THEN 0
  ELSE LET x == CHOOSE y \in S : TRUE IN Max2(f[x], MaxF(f, S \ {x}))

RECURSIVE SqrtIter(_, _)
\* Newton iteration for the integer square root, from a guess s >= sqrt(x)
SqrtIter(x, s) ==
  LET t == (s + x \div s) \div 2
  IN  IF t >= s THEN s ELSE SqrtIter(x, t)

\* sqrt() on fixed-point squares: the largest s with s*s <= x
Sqrt(x) == IF x <= 0 THEN 0 ELSE SqrtIter(x, x)

\* ------------------------------------------------------------------ graphs
\* A scenario is a graph x with vertex keys V and edge set X, and the batch
\* update (deletions D, insertions I: sequences of <<source, target>>) that
\* turns it into the graph y over the same keys.
Scenarios ==
  << [V |-> {},        X |-> {},
      D |-> << >>, I |-> << >>],
     [V |-> {1, 2, 3}, X |-> {<<1, 2>>, <<2, 3>>, <<3, 1>>},
      D |-> << >>, I |-> << >>],
     [V |-> {1, 2, 3}, X |-> {<<1, 2>>, <<2, 1>>, <<3, 1>>},
      D |-> << >>, I |-> << <<1, 1>> >>],
     [V |-> {1, 2, 3}, X |-> {<<1, 2>>, <<3, 3>>},
      D |-> << >>, I |-> << <<1, 1>> >>],
     [V |-> {1, 2, 4}, X |-> {<<1, 2>>, <<2, 1>>, <<2, 4>>, <<4, 4>>},
      D |-> << <<2, 4>> >>, I |-> << >>],
     [V |-> {1, 2, 3, 4}, X |-> {<<1, 2>>, <<2, 3>>, <<3, 4>>, <<4, 1>>},
      D |-> << >>, I |-> << >>] >>

SeqToSet(s) == {s[j] : j \in 1..Len(s)}

\* edges of the updated graph y
EdgesY(sc) == (sc.X \ SeqToSet(sc.D)) \cup SeqToSet(sc.I)

\* G::order()
Order(sc) == Cardinality(sc.V)

\* vertexKeys(): the keys in ascending order; position j holds key ks[j]
RECURSIVE SortedKeys(_)
SortedKeys(S) ==
  IF S = {} THEN << >>
  ELSE LET m == CHOOSE x \in S : \A y \in S : x <= y
       IN  <<m>> \o SortedKeys(S \ {m})

\* position of key k in ks
PosOf(ks, k) == CHOOSE j \in 1..Len(ks) : ks[j] = k

\* sourceOffsets()/destinationIndices() of the transpose graph: the
\* positions of the in-neighbours of the vertex at position v
InNbrs(edges, ks, v) == {PosOf(ks, e[1]) : e \in {d \in edges : d[2] = ks[v]}}

\* vertexData() of the transpose graph: out-degree of the vertex at position v
OutDeg(edges, ks, v) == Cardinality({e \in edges : e[1] = ks[v]})


\* ------------------------------------------------- services used by the loop
\* pagerankFactor(): the rank scaling factor f[v] = P/d, guarded at d = 0
pagerankFactor(vdeg) ==
  [v \in DOMAIN vdeg |->
     IF vdeg[v] > 0 THEN (PNum * ONE) \div (PDen * vdeg[v]) ELSE 0]

\* multiplyValuesW(c, a, f, i, n): c[v] = a[v] * f[v] over the whole range
multiplyValues(x, fac) == [v \in DOMAIN x |-> (x[v] * fac[v]) \div ONE]

\* (mutant) the teleport term not divided by N: `(1-P)`
TeleportBaseNotShared(n) == ((PDen - PNum) * ONE) \div PDen

\* plain teleport term (1-P)/N
TeleportBase(n) == ((PDen - PNum) * ONE) \div (PDen * n)

\* pagerankTeleport(r, vdeg, P, N): teleport term plus the damped rank
\* trapped at the vertices of out-degree zero, spread over all N vertices
pagerankTeleport(rr, vdeg, n) ==
  TeleportBase(n)
  + SumF([v \in DOMAIN rr |-> (PNum * rr[v]) \div (PDen * n)],
         {v \in DOMAIN rr : vdeg[v] = 0})

\* pagerankCalculateRank(): new rank of one vertex from the contributions
\* of its in-neighbours
pagerankCalculateRank(cc, ins, c0) == c0 + SumF(cc, ins)

\* pagerankError(a, r, EF, i, n) over the whole range
pagerankError(x, y, ef) ==
  LET d == [v \in DOMAIN x |-> Abs(x[v] - y[v])]
  IN  CASE ef = L1Norm -> SumF(d, DOMAIN x)
        [] ef = L2Norm -> Sqrt(SumF([v \in DOMAIN x |-> d[v] * d[v]], DOMAIN x))
        [] OTHER       -> MaxF(d, DOMAIN x)

\* dfs from key u over the edges: the keys reachable from u (u included)
RECURSIVE Reach(_, _)
Reach(edges, S) ==
  LET T == S \cup {e[2] : e \in {d \in edges : d[1] \in S}}
  IN  IF T = S THEN S ELSE Reach(edges, T)

\* pagerankAffectedVerticesTraversal(x, deletions, insertions): the keys
\* reachable in x from an endpoint of a changed edge
pagerankAffectedVerticesTraversal(sc) ==
  LET ch == SeqToSet(sc.D) \cup SeqToSet(sc.I)
  IN  Reach(sc.X, ({e[1] : e \in ch} \cup {e[2] : e \in ch}) \cap sc.V)

\* compressContainer(y, vis, ks): the flags by dense position
compressContainer(vis, ks) == [v \in 1..Len(ks) |-> ks[v] \in vis]

\* decompressContainer(xt, r, ks): the ranks by vertex key
decompressContainer(rr, ks) == [k \in SeqToSet(ks) |-> rr[PosOf(ks, k)]]


\* ------------------------------------------------ one iteration, as a function
\* a vector as a table of its values (TLC otherwise keeps a function
\* constructor unevaluated and recomputes it at every use)
Vec(x) == IF x = x THEN x ELSE x

\* A problem pr is [edges, ks, fa, ASYNC, DEAD, EF]; a loop state st is
\* [a, r, c, l, el]. With ASYNC the parameter a of the loop is the vector r
\* itself, so the sweep writes r and the error compares r with r.
IterationOf(pr, st) ==
  LET n    == Len(pr.ks)
      vdeg == [v \in 1..n |-> OutDeg(pr.edges, pr.ks, v)]
      c0   == IF pr.DEAD THEN pagerankTeleport(st.r, vdeg, n) ELSE TeleportBase(n)
      old  == IF pr.ASYNC THEN st.r ELSE st.a
      new  == [v \in 1..n |->
                 IF pr.fa[v]
                 THEN pagerankCalculateRank(st.c, InNbrs(pr.edges, pr.ks, v), c0)
                 ELSE old[v]]
      prev == IF pr.ASYNC THEN new ELSE st.r
  IN  [a  |-> IF pr.ASYNC THEN st.a ELSE st.r,
       r  |-> Vec(new),
       c  |-> Vec(multiplyValues(new, pagerankFactor(vdeg))),
       l  |-> st.l + 1,
       el |-> pagerankError(new, prev, pr.EF)]

\* the loop state on entry: what the driver (pagerankSeq / pagerankOmp) sets up
\* from the initial ranks q0 (by position)
EntryOf(pr, q0) ==
  LET n    == Len(pr.ks)
      vdeg == [v \in 1..n |-> OutDeg(pr.edges, pr.ks, v)]
  IN  [a  |-> IF pr.ASYNC THEN [v \in 1..n |-> 0] ELSE q0,
       r  |-> q0,
       c  |-> multiplyValues(q0, pagerankFactor(vdeg)),
       l  |-> 0,
       el |-> 0]

RECURSIVE IterateTimes(_, _, _)
\* the loop state after k more iterations
IterateTimes(pr, st, k) ==
  IF k = 0 THEN st
  ELSE LET nx == IterationOf(pr, st)
       IN  IF nx.l > st.l THEN IterateTimes(pr, nx, k - 1) ELSE nx

RECURSIVE IterateUntil(_, _, _, _)
\* the loop state when the loop stops by tolerance tol or by the cap
IterateUntil(pr, st, tol, cap) ==
  IF st.l >= cap THEN st
  ELSE LET nx == IterationOf(pr, st)
       IN  IF nx.el < tol THEN nx ELSE IterateUntil(pr, nx, tol, cap)

\* fillValueU(r, 1/N): the default initial ranks
UniformRanks(n) == [v \in 1..n |-> ONE \div n]


\* schedule(static) split of positions 1..n among T workers: worker t takes
\* the contiguous chunk Chunk(n, T, t)
Chunk(n, T, t) ==
  LET q == (n + T - 1) \div T
  IN  {v \in 1..n : (t - 1) * q < v /\ v <= t * q}

\* pagerankErrorOmp(): every worker reduces its chunk, the partial values are
\* combined by sum (L1, L2 squares) or by max (LI)
pagerankErrorOmp(x, y, ef, T) ==
  LET d    == [v \in DOMAIN x |-> Abs(x[v] - y[v])]
      n    == Cardinality(DOMAIN x)
      part == [t \in 1..T |->
                 CASE ef = L1Norm -> SumF(d, Chunk(n, T, t))
                   [] ef = L2Norm -> SumF([v \in DOMAIN x |-> d[v] * d[v]], Chunk(n, T, t))
                   [] OTHER       -> MaxF(d, Chunk(n, T, t))]
  IN  CASE ef = L1Norm -> SumF(part, 1..T)
        [] ef = L2Norm -> Sqrt(SumF(part, 1..T))
        [] OTHER       -> MaxF(part, 1..T)

\* pagerankTeleportOmp(): the dead-end sum reduced per worker, then summed
pagerankTeleportOmp(rr, vdeg, n, T) ==
  LET w    == [v \in DOMAIN rr |-> (PNum * rr[v]) \div (PDen * n)]
      part == [t \in 1..T |-> SumF(w, {v \in Chunk(n, T, t) : vdeg[v] = 0})]
  IN  TeleportBase(n) + SumF(part, 1..T)

\* the dead-end sum of worker t over its chunk (`reduction(+:a)`)
TeleportPart(rr, vdeg, n, T, t) ==
  SumF([v \in DOMAIN rr |-> (PNum * rr[v]) \div (PDen * n)],
       {v \in Chunk(n, T, t) : vdeg[v] = 0})

\* the partial error of worker t over its chunk
ErrorPart(x, y, ef, T, t) ==
  LET d == [v \in DOMAIN x |-> Abs(x[v] - y[v])]
      n == Cardinality(DOMAIN x)
  IN  CASE ef = L1Norm -> SumF(d, Chunk(n, T, t))
        [] ef = L2Norm -> SumF([v \in DOMAIN x |-> d[v] * d[v]], Chunk(n, T, t))
        [] OTHER       -> MaxF(d, Chunk(n, T, t))

\* two partial errors combined: sum (L1, L2 squares) or max (LI)
ErrorCombine(ef, p, q) ==
  CASE ef = L1Norm -> p + q
    [] ef = L2Norm -> p + q
    [] OTHER       -> Max2(p, q)

\* the error from the combined partial errors
ErrorFinal(ef, p) == IF ef = L2Norm THEN Sqrt(p) ELSE p

\* ---------------------------------------------------------------- inputs
\* tolerances E a run may be given (0, 0.001, 0.1)
Tolerances == {0, ONE \div 1000, ONE \div 10}

\* tolerance and iteration cap (the default 500) of the earlier run whose
\* ranks are handed in as initial ranks q
PrevE == ONE \div 1000
PrevL == 500

\* the run's inputs: which driver, the template flags, the graphs and the
\* options o (tolerance E, cap L, norm EF), and whether initial ranks q are
\* given ("prev": the ranks of the graph x from an earlier static run)
Inputs ==
  [drv : {"static", "dynamic"}, omp : BOOLEAN, ASYNC : BOOLEAN, DEAD : BOOLEAN,
   sc : 1..Len(Scenarios), E : Tolerances, L : 1..MaxL,
   EF : {L1Norm, L2Norm, LiNorm}, q : {"none", "prev"}]

VARIABLES
  o,          \* the inputs of the run
  pc,         \* where the run is: start, loop, teleport, calc, mult, error,
              \* swap, check, done
  vaff,       \* affected flag by position (the predicate fa)
  a, r, c,    \* current ranks, previous ranks, contributions (by position)
  C0,         \* teleport term of the iteration
  el,         \* error of the iteration
  l,          \* iterations performed
  todo,       \* positions the sweep of pagerankCalculateRanks has not visited
  crashed,    \* ThreadInfo::crashed of every worker
  result,     \* the PagerankResult returned
  began,      \* iterations begun (history)
  crashK,     \* first iteration that had not begun when a flag was first set,
              \* 0 while no flag is set (history)
  recomputed, \* positions whose rank the current sweep has written (history)
  invoked,    \* which of "affected" (the traversal) and "loop" were called (history)
  fin,        \* workers that have finished their share of the parallel step
              \* under way (multi-worker teleport sum, contributions, error)
  acc         \* the partial values of the finished workers, combined

vars == <<o, pc, vaff, a, r, c, C0, el, l, todo, crashed, result, began,
          crashK, recomputed, invoked, fin, acc>>

\* ------------------------------------------------------- derived from inputs
sc    == Scenarios[o.sc]
ks    == SortedKeys(sc.V)
N     == Order(sc)
edges == EdgesY(sc)
vdeg  == [v \in 1..N |-> OutDeg(edges, ks, v)]
f     == pagerankFactor(vdeg)
E     == o.E
L     == o.L
EF    == o.EF
ASYNC == o.ASYNC
DEAD  == o.DEAD

\* number of ThreadInfo records: threadInfos(1) or one per OpenMP thread
Threads(omp) == IF omp THEN NumThreads ELSE 1

\* the ranks of x from the earlier run: static, synchronous, from uniform ranks
PrevRanks(in) ==
  LET s   == Scenarios[in.sc]
      k   == SortedKeys(s.V)
      pr  == [edges |-> s.X, ks |-> k, fa |-> [v \in 1..Len(k) |-> TRUE],
              ASYNC |-> FALSE, DEAD |-> in.DEAD, EF |-> in.EF]
  IN  IterateUntil(pr, EntryOf(pr, UniformRanks(Len(k))), PrevE, PrevL).r

\* the initial ranks by position: compressContainer(xt, *q, ks), or 1/N
InitialRanks(in) ==
  IF in.q = "prev" THEN PrevRanks(in)
  ELSE UniformRanks(Order(Scenarios[in.sc]))


\* ----------------------------------------------------------------- start
Init ==
  /\ o \in Inputs
  /\ pc = "start"
  /\ vaff = << >>
  /\ a = << >> /\ r = << >> /\ c = << >>
  /\ C0 = 0 /\ el = 0 /\ l = 0
  /\ todo = {}
  /\ crashed = [t \in 1..Threads(o.omp) |-> FALSE]
  /\ result = [ranks |-> << >>, iterations |-> 0]
  /\ began = 0 /\ crashK = 0
  /\ recomputed = {}
  /\ invoked = {}
  /\ fin = {} /\ acc = 0

\* --------------------------------------------------------------- drivers
\* (mutant) the test for the empty graph is missing
EmptyGraphNotTested(n) == FALSE

\* `if (N==0) return {};`
EmptyGraph(n) == n = 0

\* fa of the static drivers: `[](K u) { return true; }`
StaticAffected(n) == [v \in 1..n |-> TRUE]

\* (mutant) the dynamic drivers pass the constant `true` for fa
DynamicAffectedAll(s, k) == [v \in 1..Len(k) |-> TRUE]

\* (mutant) the dynamic drivers pass the negated flags for fa
DynamicAffectedNegated(s, k) ==
  [v \in 1..Len(k) |-> k[v] \notin pagerankAffectedVerticesTraversal(s)]

\* fa of the dynamic drivers: `[&](K u) { return vaff[u]==true; }` over
\* vaff = compressContainer(y, pagerankAffectedVerticesTraversal(x, ..), ks)
DynamicAffected(s, k) ==
  compressContainer(pagerankAffectedVerticesTraversal(s), k)

\* pagerankSeq / pagerankOmp up to the call of the loop: initial ranks in r,
\* a copy of them in a (synchronous mode), contributions c = r * f
Setup(fa, calls) ==
  LET q0 == InitialRanks(o)
  IN  /\ vaff' = fa
      /\ r' = q0
      /\ a' = IF ASYNC THEN [v \in 1..N |-> 0] ELSE q0
      /\ c' = multiplyValues(q0, f)
      /\ invoked' = calls
      /\ pc' = "loop"
      /\ UNCHANGED <<result, l>>

\* `return {}`: the empty PagerankResult
ReturnEmpty ==
  /\ pc' = "done"
  /\ result' = [ranks |-> << >>, iterations |-> 0]
  /\ UNCHANGED <<vaff, a, r, c, invoked, l>>

StaticDriver ==
  IF EmptyGraph(N) THEN ReturnEmpty
  ELSE Setup(StaticAffected(N), {"loop"})

DynamicDriver ==
  IF EmptyGraph(N) THEN ReturnEmpty
  ELSE Setup(DynamicAffected(sc, ks), {"affected", "loop"})

pagerankBasicSeq ==
  /\ pc = "start" /\ o.drv = "static" /\ ~o.omp
  /\ StaticDriver
  /\ UNCHANGED <<o, C0, el, todo, crashed, began, crashK, recomputed>>
  /\ UNCHANGED <<fin, acc>>

pagerankBasicOmp ==
  /\ pc = "start" /\ o.drv = "static" /\ o.omp
  /\ StaticDriver
  /\ UNCHANGED <<o, C0, el, todo, crashed, began, crashK, recomputed>>
  /\ UNCHANGED <<fin, acc>>

pagerankBasicDynamicTraversalSeq ==
  /\ pc = "start" /\ o.drv = "dynamic" /\ ~o.omp
  /\ DynamicDriver
  /\ UNCHANGED <<o, C0, el, todo, crashed, began, crashK, recomputed>>
  /\ UNCHANGED <<fin, acc>>

pagerankBasicDynamicTraversalOmp ==
  /\ pc = "start" /\ o.drv = "dynamic" /\ o.omp
  /\ DynamicDriver
  /\ UNCHANGED <<o, C0, el, todo, crashed, began, crashK, recomputed>>
  /\ UNCHANGED <<fin, acc>>

\* ------------------------------------------------------------------ loop
\* (mutant) the loop condition off by one: `l<=L`
WhileCondOffByOne(n, cap) == n <= cap

\* the loop condition `l<L`
WhileCond(n, cap) == n < cap

\* (mutant) the tolerance test reversed: `E<el`
ConvergedReversed(err, tol) == tol < err

\* (mutant) the tolerance test not strict: `el<=E`
ConvergedNotStrict(err, tol) == err <= tol

\* the tolerance test `el<E`
Converged(err, tol) == err < tol

\* (mutant) the failure flag is never looked at
CrashedSeqIgnored(th) == FALSE

\* `threads[0]->crashed`
CrashedSeq(th) == th[1]

\* (mutant) only the flag of worker 0 is looked at, as in the single-worker loop
CrashedOmpFirstOnly(th) == th[1]

\* `threadInfosCrashedCount(threads) > 0`
CrashedOmp(th) == Cardinality({t \in DOMAIN th : th[t]}) > 0

\* the vector the loop writes as `a`: with ASYNC the driver passes r for it
WriteBuf == IF ASYNC THEN r ELSE a

\* (mutant) the count is returned one short (`++l` after the tests)
ReturnOneShort(n) ==
  /\ pc' = "done"
  /\ result' = [ranks |-> decompressContainer(r, ks), iterations |-> n - 1]

\* `return l;` and the driver's `return {decompressContainer(xt, r, ks), l, t}`
Return(n) ==
  /\ pc' = "done"
  /\ result' = [ranks |-> decompressContainer(r, ks), iterations |-> n]

\* (mutant) the failure flag is also tested on entry: `while (l<L && !crashed)`
LoopEnterTestsFlag ==
  /\ pc = "loop"
  /\ l' = 0
  /\ IF WhileCond(0, L)
        /\ ~(IF o.omp THEN CrashedOmp(crashed) ELSE CrashedSeq(crashed))
     THEN pc' = "teleport" /\ UNCHANGED result
     ELSE Return(0)
  /\ UNCHANGED <<o, vaff, a, r, c, C0, el, todo, crashed, began, crashK,
                 recomputed, invoked, fin, acc>>

\* `int l = 0; while (l<L)`: the first test of the loop condition
LoopEnter ==
  /\ pc = "loop"
  /\ l' = 0
  /\ IF WhileCond(0, L) THEN pc' = "teleport" /\ UNCHANGED result
     ELSE Return(0)
  /\ UNCHANGED <<o, vaff, a, r, c, C0, el, todo, crashed, began, crashK,
                 recomputed, invoked>>
  /\ UNCHANGED <<fin, acc>>

\* `V C0 = DEAD? pagerankTeleport(r, vdeg, P, N) : (1-P)/N;`
Teleport ==
  /\ pc = "teleport" /\ ~o.omp
  /\ C0' = IF ~DEAD THEN TeleportBase(N) ELSE pagerankTeleport(r, vdeg, N)
  /\ began' = began + 1
  /\ todo' = 1..N
  /\ recomputed' = {}
  /\ pc' = "calc"
  /\ UNCHANGED <<o, vaff, a, r, c, el, l, crashed, result, crashK, invoked>>
  /\ UNCHANGED <<fin, acc>>

\* one vertex of pagerankCalculateRanks: `if (!fa(v)) continue;` else
\* a[v] = C0 + sum of c over the in-neighbours; `++l` after the last vertex
CalcVertex(v) ==
  /\ IF vaff[v]
     THEN LET av == pagerankCalculateRank(c, InNbrs(edges, ks, v), C0)
          IN  /\ IF ASYNC
                 THEN r' = [r EXCEPT ![v] = av] /\ UNCHANGED a
                 ELSE a' = [a EXCEPT ![v] = av] /\ UNCHANGED r
              /\ recomputed' = recomputed \cup {v}
     ELSE UNCHANGED <<a, r, recomputed>>
  /\ todo' = todo \ {v}
  /\ IF todo' = {} THEN l' = l + 1 /\ pc' = "mult"
     ELSE UNCHANGED <<l, pc>>
  /\ UNCHANGED <<o, vaff, c, C0, el, crashed, result, began, crashK, invoked>>
  /\ UNCHANGED <<fin, acc>>

\* pagerankCalculateRanks: `for (K v=i; v<i+n; ++v)`, in ascending order
CalcSeq ==
  /\ pc = "calc" /\ ~o.omp
  /\ \E v \in todo : (\A u \in todo : v <= u) /\ CalcVertex(v)

\* pagerankCalculateRanksOmp: the workers take the vertices in any order
CalcOmp ==
  /\ pc = "calc" /\ o.omp
  /\ \E v \in todo : CalcVertex(v)

\* the workers of the multi-worker loop
Workers == 1..NumThreads

\* (mutant) the workers store their dead-end sums into one shared variable
\* instead of reducing: the sum of the worker that finishes last wins
TeleportOmpSharedAccumulator(t) ==
  /\ pc = "teleport" /\ o.omp
  /\ t \notin fin
  /\ ~DEAD => t = 1
  /\ LET p == IF DEAD THEN TeleportPart(r, vdeg, N, NumThreads, t) ELSE 0
     IN  IF DEAD /\ fin \cup {t} # Workers
         THEN /\ fin' = fin \cup {t}
              /\ acc' = p
              /\ UNCHANGED <<C0, began, todo, recomputed, pc>>
         ELSE /\ C0' = TeleportBase(N) + p
              /\ fin' = {}
              /\ acc' = 0
              /\ began' = began + 1
              /\ todo' = 1..N
              /\ recomputed' = {}
              /\ pc' = "calc"
  /\ UNCHANGED <<o, vaff, a, r, c, el, l, crashed, result, crashK, invoked>>

\* `V C0 = DEAD? pagerankTeleportOmp(r, vdeg, P, N) : (1-P)/N;`: with DEAD
\* every worker sums its chunk, the last to finish passes the barrier; without
\* DEAD the term is computed by the master alone
TeleportOmp(t) ==
  /\ pc = "teleport" /\ o.omp
  /\ t \notin fin
  /\ ~DEAD => t = 1
  /\ LET p == IF DEAD THEN acc + TeleportPart(r, vdeg, N, NumThreads, t) ELSE 0
     IN  IF DEAD /\ fin \cup {t} # Workers
         THEN /\ fin' = fin \cup {t}
              /\ acc' = p
              /\ UNCHANGED <<C0, began, todo, recomputed, pc>>
         ELSE /\ C0' = TeleportBase(N) + p
              /\ fin' = {}
              /\ acc' = 0
              /\ began' = began + 1
              /\ todo' = 1..N
              /\ recomputed' = {}
              /\ pc' = "calc"
  /\ UNCHANGED <<o, vaff, a, r, c, el, l, crashed, result, crashK, invoked>>

\* (mutant) no barrier after the contributions (`nowait`): the worker that
\* finishes first goes on to the error
MultOmpNoWait(t) ==
  /\ pc = "mult" /\ o.omp
  /\ t \notin fin
  /\ c' = [v \in 1..N |->
              IF v \in Chunk(N, NumThreads, t)
              THEN (WriteBuf[v] * f[v]) \div ONE ELSE c[v]]
  /\ fin' = {} /\ pc' = "error"
  /\ UNCHANGED <<o, vaff, a, r, C0, el, l, todo, crashed, result, began,
                 crashK, recomputed, invoked, acc>>

\* `multiplyValuesOmpW(c, a, f, i, n);`: worker t writes the contributions of
\* its chunk, the last to finish passes the barrier
MultOmp(t) ==
  /\ pc = "mult" /\ o.omp
  /\ t \notin fin
  /\ c' = [v \in 1..N |->
              IF v \in Chunk(N, NumThreads, t)
              THEN (WriteBuf[v] * f[v]) \div ONE ELSE c[v]]
  /\ IF fin \cup {t} # Workers
     THEN fin' = fin \cup {t} /\ UNCHANGED pc
     ELSE fin' = {} /\ pc' = "error"
  /\ UNCHANGED <<o, vaff, a, r, C0, el, l, todo, crashed, result, began,
                 crashK, recomputed, invoked, acc>>

\* (mutant) the workers store into one shared accumulator instead of
\* reducing: the partial value of the worker that finishes last wins
ErrorOmpSharedAccumulator(t) ==
  /\ pc = "error" /\ o.omp
  /\ t \notin fin
  /\ LET p == ErrorPart(WriteBuf, r, EF, NumThreads, t)
     IN  IF fin \cup {t} # Workers
         THEN fin' = fin \cup {t} /\ acc' = p /\ UNCHANGED <<el, pc>>
         ELSE fin' = {} /\ acc' = 0 /\ el' = ErrorFinal(EF, p) /\ pc' = "swap"
  /\ UNCHANGED <<o, vaff, a, r, c, C0, l, todo, crashed, result, began,
                 crashK, recomputed, invoked>>

\* `V el = pagerankErrorOmp(a, r, EF, i, n);`: worker t reduces its chunk, the
\* partial values are combined, the last to finish passes the barrier
ErrorOmp(t) ==
  /\ pc = "error" /\ o.omp
  /\ t \notin fin
  /\ LET p == ErrorCombine(EF, acc, ErrorPart(WriteBuf, r, EF, NumThreads, t))
     IN  IF fin \cup {t} # Workers
         THEN fin' = fin \cup {t} /\ acc' = p /\ UNCHANGED <<el, pc>>
         ELSE fin' = {} /\ acc' = 0 /\ el' = ErrorFinal(EF, p) /\ pc' = "swap"
  /\ UNCHANGED <<o, vaff, a, r, c, C0, l, todo, crashed, result, began,
                 crashK, recomputed, invoked>>

\* `multiplyValuesW(c, a, f, i, n);`
Mult ==
  /\ pc = "mult" /\ ~o.omp
  /\ c' = multiplyValues(WriteBuf, f)
  /\ pc' = "error"
  /\ UNCHANGED <<o, vaff, a, r, C0, el, l, todo, crashed, result, began,
                 crashK, recomputed, invoked>>
  /\ UNCHANGED <<fin, acc>>

\* `V el = pagerankError(a, r, EF, i, n);`
Error ==
  /\ pc = "error" /\ ~o.omp
  /\ el' = pagerankError(WriteBuf, r, EF)
  /\ pc' = "swap"
  /\ UNCHANGED <<o, vaff, a, r, c, C0, l, todo, crashed, result, began,
                 crashK, recomputed, invoked>>
  /\ UNCHANGED <<fin, acc>>

\* (mutant) the buffers are not swapped
SwapMissing ==
  /\ pc = "swap"
  /\ pc' = "check"
  /\ UNCHANGED <<o, vaff, a, r, c, C0, el, l, todo, crashed, result, began,
                 crashK, recomputed, invoked>>
  /\ UNCHANGED <<fin, acc>>

\* `if (!ASYNC) swap(a, r);`
Swap ==
  /\ pc = "swap"
  /\ IF ~ASYNC THEN a' = r /\ r' = a ELSE UNCHANGED <<a, r>>
  /\ pc' = "check"
  /\ UNCHANGED <<o, vaff, c, C0, el, l, todo, crashed, result, began,
                 crashK, recomputed, invoked>>
  /\ UNCHANGED <<fin, acc>>

\* `if (el<E) break; if (<crashed>) break;` and the loop condition again
Check(isCrashed) ==
  /\ pc = "check"
  /\ IF Converged(el, E) \/ isCrashed \/ ~WhileCond(l, L)
     THEN Return(l)
     ELSE pc' = "teleport" /\ UNCHANGED result
  /\ UNCHANGED <<o, vaff, a, r, c, C0, el, l, todo, crashed, began, crashK,
                 recomputed, invoked>>
  /\ UNCHANGED <<fin, acc>>

CheckSeq == ~o.omp /\ Check(CrashedSeq(crashed))

CheckOmp == o.omp /\ Check(CrashedOmp(crashed))

\* a worker's failure flag is set from outside (or by the callback fv)
Crash(t) ==
  /\ pc \notin {"start", "done"}
  /\ ~crashed[t]
  /\ Cardinality({u \in DOMAIN crashed : crashed[u]}) < MaxCrashes
  /\ crashed' = [crashed EXCEPT ![t] = TRUE]
  /\ crashK' = IF crashK = 0 THEN began + 1 ELSE crashK
  /\ UNCHANGED <<o, pc, vaff, a, r, c, C0, el, l, todo, result, began,
                 recomputed, invoked>>
  /\ UNCHANGED <<fin, acc>>

Step ==
  \/ pagerankBasicSeq
  \/ pagerankBasicOmp
  \/ pagerankBasicDynamicTraversalSeq
  \/ pagerankBasicDynamicTraversalOmp
  \/ LoopEnter
  \/ Teleport
  \/ CalcSeq
  \/ CalcOmp
  \/ Mult
  \/ Error
  \/ \E t \in Workers : TeleportOmp(t)
  \/ \E t \in Workers : MultOmp(t)
  \/ \E t \in Workers : ErrorOmp(t)
  \/ Swap
  \/ CheckSeq
  \/ CheckOmp

Next == Step \/ \E t \in DOMAIN crashed : Crash(t)

Spec == Init /\ [][Next]_vars

\* the program never waits: a step that can be taken is taken
FairSpec == Spec /\ WF_vars(Step)


\* ------------------------------------------------------------- properties
\* the run as a problem for IterationOf
Problem ==
  [edges |-> edges, ks |-> ks, fa |-> vaff, ASYNC |-> ASYNC, DEAD |-> DEAD,
   EF |-> EF]

\* the loop state after k complete iterations from the driver's setup
AfterIterations(k) ==
  IterateTimes(Problem, EntryOf(Problem, InitialRanks(o)), k)

\* the failure flag the loop of this run tests
IsCrashed == IF o.omp THEN CrashedOmp(crashed) ELSE CrashedSeq(crashed)

\* the loop has returned (the graph was not empty)
Returned == pc = "done" /\ "loop" \in invoked

\* the loop returned because of a failure flag: the tolerance test came
\* first and did not stop it
StoppedByFlag == Returned /\ ~Converged(el, E) /\ IsCrashed

\* steps the run can still take at most. An iteration takes at most K steps:
\* W for the teleport term, N vertices, W for the contributions, W for the
\* error (W workers), the swap and the check
StepsLeft ==
  LET W == IF o.omp THEN NumThreads ELSE 1
      K == N + 3 * W + 2
      F == Cardinality(fin)
  IN  CASE pc = "start"    -> L * K + 2
        [] pc = "loop"     -> L * K + 1
        [] pc = "teleport" -> (L - l) * K - F
        [] pc = "calc"     -> (L - l) * K - W - (N - Cardinality(todo))
        [] pc = "mult"     -> (L - l) * K + 2 * W + 2 - F
        [] pc = "error"    -> (L - l) * K + W + 2 - F
        [] pc = "swap"     -> (L - l) * K + 2
        [] pc = "check"    -> (L - l) * K + 1
        [] OTHER           -> 0

\* a step of the run can be taken: the guards of the actions of Step
CanStep ==
  \/ pc \in {"start", "loop", "swap", "check"}
  \/ pc \in {"teleport", "mult", "error"} /\ (o.omp => fin # Workers)
  \/ pc = "calc" /\ todo # {}

\* C1: for every run of the loop (single-worker and multi-worker) with
\* L >= 1, whatever the errors and the failure flags, the loop terminates and
\* the returned count l satisfies l <= L: the count never exceeds L, a run
\* that has not returned can always take a step, and every step of the run
\* lowers the bounded number of steps left.
C1_TerminatesWithinCap ==
  /\ [](l <= L /\ StepsLeft >= 0 /\ (pc # "done" => CanStep))
  /\ [](pc = "done" => (StepsLeft = 0 /\ result.iterations <= L))
  /\ [][crashed' = crashed => StepsLeft' < StepsLeft]_vars

\* C1 witness: a run that stopped at the cap, neither converged nor crashed.
C1_Witness ==
  Returned /\ result.iterations = L /\ ~Converged(el, E) /\ ~IsCrashed

\* C2: the single-worker loop returns after iteration k, with count k, if
\* and only if the error of iteration k is below the tolerance, or k = L, or
\* worker 0's flag is set; otherwise it goes on to iteration k+1.
C2_SeqStopIff ==
  [][(~o.omp /\ pc # "start" /\ pc' # pc) =>
       LET stop == el < E \/ l = L \/ crashed[1]
       IN  /\ (pc' = "done") <=> (pc = "check" /\ stop)
           /\ (pc' = "done") => (result'.iterations = l /\ l' = l)
           /\ (pc = "check" /\ ~stop) => (pc' = "teleport" /\ l' = l)]_vars

\* C2 witness: the single-worker loop returned before the cap, not
\* converged, because worker 0's flag was set.
C2_Witness ==
  ~o.omp /\ StoppedByFlag /\ result.iterations < L /\ result.iterations >= 1

\* C3 (as claimed): a flag set before iteration k begins makes the loop
\* return a count strictly less than k.
C3_CountBelowK ==
  (Returned /\ crashK > 0) => result.iterations < crashK

\* C3 (amended): a flag set before iteration k begins makes the loop return
\* a count of at most k.
C3_CountAtMostK ==
  (Returned /\ crashK > 0) => result.iterations <= crashK

\* C3 witness: the flag was set before iteration k began, iteration k was
\* still run, and the flag stopped the loop with count k.
C3_Witness ==
  StoppedByFlag /\ crashK > 0 /\ result.iterations = crashK


\* the buffer the sweep writes holds ranks computed in an earlier iteration
HoldsComputedRanks == IF ASYNC THEN l >= 1 ELSE l >= 2

\* C4 (as claimed): when the loop stops because a failure flag is set, the
\* ranks handed back are those of the last fully completed iteration, no
\* vertex holds a value of a partial sweep, and no rank computed in an earlier
\* iteration is overwritten after the flag has been set.
C4_NoWriteAfterFlag ==
  /\ [](StoppedByFlag =>
          /\ todo = {}
          /\ r = AfterIterations(result.iterations).r
          /\ result.ranks = decompressContainer(r, ks))
  /\ [][(IsCrashed /\ pc = "calc" /\ HoldsComputedRanks)
          => WriteBuf' = WriteBuf]_vars

\* C4 (amended): when the loop stops because a failure flag is set, the ranks
\* handed back are exactly those of the last fully completed iteration and no
\* vertex holds a value of a partial sweep (the sweep that is running when the
\* flag is set is finished first, and does overwrite earlier ranks).
C4_LastCompleteIteration ==
  StoppedByFlag =>
    /\ todo = {}
    /\ r = AfterIterations(result.iterations).r
    /\ result.ranks = decompressContainer(r, ks)

\* C4 witness: the flag was set while iteration l >= 2 was running and the
\* loop returned l.
C4_Witness ==
  StoppedByFlag /\ result.iterations >= 2 /\ crashK = result.iterations + 1


\* the static driver run to convergence on the graph y of the inputs, from
\* the default initial ranks, with the flags and options of the inputs and the
\* default cap: its final loop state
StaticConverged(in) ==
  LET s  == Scenarios[in.sc]
      k  == SortedKeys(s.V)
      pr == [edges |-> EdgesY(s), ks |-> k, fa |-> StaticAffected(Len(k)),
             ASYNC |-> in.ASYNC, DEAD |-> in.DEAD, EF |-> in.EF]
  IN  IterateUntil(pr, EntryOf(pr, UniformRanks(Len(k))), in.E, PrevL)

\* no failure flag is set
NoCrash == \A t \in DOMAIN crashed : ~crashed[t]

\* C5 (as claimed): with the converged ranks of x as initial ranks, the
\* dynamic-traversal driver run to convergence on y returns for every vertex
\* a rank within the tolerance of the rank the static driver returns when run
\* to convergence on y.
C5_DynamicEqualsStatic ==
  (Returned /\ o.drv = "dynamic" /\ o.q = "prev" /\ NoCrash /\ Converged(el, E))
    => LET ref == StaticConverged(o)
       IN  Converged(ref.el, E)
             => \A v \in 1..N : Abs(r[v] - ref.r[v]) <= E

\* positions of the affected vertices, from the traversal of the inputs
AffectedPositions ==
  {v \in 1..N : ks[v] \in pagerankAffectedVerticesTraversal(sc)}

\* the sweep of the current iteration is complete
SweepDone ==
  \/ pc \in {"mult", "error", "swap", "check"}
  \/ Returned /\ l >= 1

\* C6: in every iteration of a dynamic-traversal run the vertices recomputed
\* are exactly the affected set fixed before the loop started; the predicate
\* never changes during the run; so at most N vertices are recomputed (what
\* the static driver recomputes), fewer when the affected set is a strict subset.
C6_RecomputedIsAffected ==
  /\ [][pc # "start" => vaff' = vaff]_vars
  /\ []((o.drv = "dynamic" /\ "loop" \in invoked) =>
          /\ recomputed \subseteq AffectedPositions
          /\ SweepDone => recomputed = AffectedPositions
          /\ Cardinality(recomputed) <= N
          /\ AffectedPositions # 1..N => Cardinality(recomputed) < N)
  /\ []((o.drv = "static" /\ SweepDone) => recomputed = 1..N)

\* C6 witness: the second sweep of a dynamic run is complete and has
\* recomputed a strict, non-empty subset of the vertices.
C6_Witness ==
  /\ o.drv = "dynamic" /\ pc = "mult" /\ l = 2
  /\ recomputed # {} /\ recomputed # 1..N

\* C7: in a dynamic-traversal run every vertex whose affected predicate is
\* false is returned with its rank of the initial rank vector, after any
\* number of iterations, with and without the buffer swap.
C7_UnaffectedKeepRank ==
  (Returned /\ o.drv = "dynamic") =>
    LET q0 == InitialRanks(o)
    IN  \A v \in 1..N \ AffectedPositions :
          /\ r[v] = q0[v]
          /\ result.ranks[ks[v]] = q0[v]

\* C7 witness: a synchronous dynamic run returned after two iterations (two
\* swaps), with an unaffected vertex and an affected vertex whose rank changed.
C7_Witness ==
  /\ Returned /\ o.drv = "dynamic" /\ ~ASYNC /\ result.iterations = 2
  /\ 1..N \ AffectedPositions # {}
  /\ \E v \in AffectedPositions : r[v] # InitialRanks(o)[v]

\* C8: every driver returns the empty result when the graph to rank has no
\* vertex, and then neither the loop nor the affected-set traversal is called.
C8_EmptyGraph ==
  N = 0 =>
    /\ pc \in {"start", "done"}
    /\ invoked = {}
    /\ pc = "done" => result.ranks = << >>

\* C8 witness: a dynamic driver has returned for the empty graph.
C8_Witness == N = 0 /\ pc = "done" /\ o.drv = "dynamic" /\ o.omp

\* the initial ranks are converged: one step of propagation changes them by
\* less than the tolerance under the norm EF
AlreadyConverged ==
  LET pr == [edges |-> edges, ks |-> ks, fa |-> StaticAffected(N),
             ASYNC |-> FALSE, DEAD |-> DEAD, EF |-> EF]
      q0 == InitialRanks(o)
  IN  pagerankError(IterationOf(pr, EntryOf(pr, q0)).r, q0, EF) < E

\* C9: the static driver given converged initial ranks performs at most one
\* iteration, is stopped by the tolerance test, and returns ranks within the
\* tolerance of the initial ranks.
C9_Idempotent ==
  (Returned /\ o.drv = "static" /\ AlreadyConverged) =>
    /\ result.iterations <= 1
    /\ el < E
    /\ pagerankError(r, InitialRanks(o), EF) < E

\* C9 witness: a static run on given initial ranks that were converged but
\* not a fixed point: one iteration, ranks changed.
C9_Witness ==
  /\ Returned /\ o.drv = "static" /\ o.q = "prev" /\ AlreadyConverged
  /\ result.iterations = 1 /\ r # InitialRanks(o)

\* C10 (as claimed): with no worker failure a run that reaches the cap
\* without meeting the tolerance returns with count L, and the count alone
\* tells: count = L means the tolerance was not met, a smaller count means it
\* was.
C10_CountTellsConvergence ==
  (Returned /\ NoCrash) =>
    /\ ~(el < E) => result.iterations = L
    /\ result.iterations = L => ~(el < E)
    /\ result.iterations < L => el < E

\* C10 (amended): with no worker failure a run that reaches the cap without
\* meeting the tolerance returns with count L, and a count below L means the
\* tolerance was met (a count of L does not tell).
C10_CountBelowCapConverged ==
  (Returned /\ NoCrash) =>
    /\ ~(el < E) => result.iterations = L
    /\ result.iterations < L => el < E

\* C10 witness: a run without failure returned at the cap L >= 2 without
\* meeting the tolerance.
C10_Witness ==
  Returned /\ NoCrash /\ L >= 2 /\ result.iterations = L /\ ~(el < E)


\* the ranks the last complete sweep produced: in the buffer written as `a`
\* until the swap, in r afterwards
LatestRanks == IF pc \in {"mult", "error", "swap"} THEN WriteBuf ELSE r

\* the graph has a vertex of out-degree zero
HasDeadEnd == \E v \in 1..N : vdeg[v] = 0

\* rank mass lost to the truncations of the fixed-point arithmetic: the
\* counterpart of the floating tolerance (0.5% of the total mass)
MassTol == ONE \div 200

\* the ranks x sum to 1 up to the truncations
SumsToOne(x) == Abs(SumF(x, DOMAIN x) - ONE) <= MassTol

\* C11 (as claimed): with dead-end handling, on a graph with a vertex of
\* out-degree zero and from initial ranks that sum to 1, the ranks sum to 1
\* after every iteration of the loop.
C11_MassConserved ==
  (DEAD /\ SweepDone /\ HasDeadEnd /\ SumsToOne(InitialRanks(o)))
    => SumsToOne(LatestRanks)

\* C11 restricted to the runs in which every vertex is recomputed (the
\* static drivers): there the mass is conserved.
MassConservedStatic ==
  (DEAD /\ SweepDone /\ HasDeadEnd /\ SumsToOne(InitialRanks(o))
     /\ o.drv = "static")
    => SumsToOne(LatestRanks)


\* the graph is a union of directed cycles: every vertex has exactly one
\* in-edge and exactly one out-edge
IsCycleGraph ==
  \A v \in 1..N : vdeg[v] = 1 /\ Cardinality(InNbrs(edges, ks, v)) = 1

AnyCrashed == \E t \in DOMAIN crashed : crashed[t]

\* the step that follows each step of an iteration
StepAfter(p) ==
  CASE p = "teleport" -> "calc"
    [] p = "calc"     -> "mult"
    [] p = "mult"     -> "error"
    [] p = "error"    -> "swap"
    [] p = "swap"     -> "check"
    [] OTHER          -> "done"

\* C13: in the multi-worker loop a failure flag of any worker stops the run
\* at the next iteration boundary: a check that sees a flag returns, the flags
\* are read only at the check, after the sweep, the contribution, the error
\* and the swap step, a sweep is never cut short, and the count returned is
\* that of the iteration in which (or before which) the flag was set.
C13_AnyWorkerStopsAtBoundary ==
  /\ [][(o.omp /\ pc = "check" /\ AnyCrashed /\ pc' # pc) =>
          (pc' = "done" /\ result'.iterations = l /\ began' = began)]_vars
  /\ [][(o.omp /\ pc \in {"teleport", "calc", "mult", "error", "swap"}
           /\ pc' # pc) =>
          /\ pc' = StepAfter(pc)
          /\ pc = "calc" => (todo' = {} /\ recomputed' = {v \in 1..N : vaff[v]})]_vars
  /\ []((o.omp /\ Returned /\ crashK > 0) =>
          /\ result.iterations <= crashK
          /\ StoppedByFlag => result.iterations >= crashK - 1)

\* C13 witness: a multi-worker run was stopped before the cap by the flag of
\* a worker other than worker 0, set while the last iteration was under way.
C13_Witness ==
  /\ o.omp /\ StoppedByFlag /\ ~crashed[1] /\ crashed[2]
  /\ result.iterations < L /\ result.iterations = crashK - 1


\* C14: in the multi-worker loop no step of an iteration starts before every
\* worker has finished the step before it: the contributions start after the
\* whole sweep, the error after all contributions, the swap and the check
\* after the whole error, and the next iteration after the check, when all
\* iterations begun are complete and the buffers have been swapped.
C14_NoCrossIterationParallelism ==
  /\ []((o.omp /\ pc \in {"mult", "error", "swap", "check"}) => todo = {})
  /\ []((o.omp /\ pc \in {"error", "swap"}) => c = multiplyValues(WriteBuf, f))
  /\ []((o.omp /\ pc \in {"calc", "swap", "check"}) => (fin = {} /\ acc = 0))
  /\ [][(o.omp /\ pc' # pc /\ pc \in {"teleport", "calc", "mult", "error", "swap"})
          => pc' = StepAfter(pc)]_vars
  /\ [][(o.omp /\ pc' = "teleport" /\ pc # "teleport") =>
          /\ pc \in {"loop", "check"}
          /\ todo = {} /\ fin = {} /\ l = began
          /\ pc = "check" => c = multiplyValues(r, f)]_vars
  /\ [][(o.omp /\ began' # began) =>
          (began' = began + 1 /\ l = began /\ pc = "teleport" /\ pc' = "calc")]_vars

\* C14 witness: in the second iteration of a multi-worker run one worker has
\* written its contributions and another has not.
C14_Witness ==
  o.omp /\ pc = "mult" /\ l = 2 /\ fin # {} /\ fin # Workers


\* C15: in synchronous mode with several workers the buffers a, r, c and the
\* reduced error at the end of an iteration are the same for every order in
\* which the workers take the vertices and finish their shares (they are the
\* values of l iterations computed in sequence); a step of the sweep writes
\* neither r, c nor C0, which the new ranks are computed from, and writes
\* only an index of a no step of the sweep has written before.
C15_InterleavingIndependent ==
  /\ []((o.omp /\ ~ASYNC /\ pc = "check") =>
          LET s == AfterIterations(l)
          IN  a = s.a /\ r = s.r /\ c = s.c /\ el = s.el)
  /\ [][(o.omp /\ ~ASYNC /\ pc = "calc") =>
          /\ r' = r /\ c' = c /\ C0' = C0
          /\ recomputed \subseteq recomputed'
          /\ \A v \in 1..N : a'[v] # a[v] => v \in recomputed' \ recomputed]_vars

\* C15 witness: a synchronous multi-worker run is at the end of its second
\* iteration, with ranks that changed in it.
C15_Witness ==
  o.omp /\ ~ASYNC /\ pc = "check" /\ l = 2 /\ el > 0 /\ a # r


\* C16 (as claimed): in both update disciplines, when the error of iteration
\* k is computed the previous buffer r holds the ranks produced by iteration
\* k-1 (the initial ranks for k = 1), and the error compared against the
\* tolerance is the change in ranks between iterations k-1 and k.
C16_PreviousHoldsPriorIteration ==
  /\ (pc = "error" /\ l >= 1) => r = AfterIterations(l - 1).r
  /\ (pc = "swap" /\ l >= 1) =>
       el = pagerankError(AfterIterations(l).r, AfterIterations(l - 1).r, EF)


\* C17: on every exit of the loop (tolerance, cap, failure flag), with and
\* without ASYNC, the ranks of the last iteration performed are in r when the
\* loop returns: the swap step leaves in r what the sweep wrote, the loop
\* returns only from the check that follows it, and the check writes nothing.
C17_RanksInPreviousOnExit ==
  /\ []((Returned /\ result.iterations >= 1) =>
          /\ r = AfterIterations(result.iterations).r
          /\ result.ranks = decompressContainer(r, ks))
  /\ [][(pc = "swap" /\ pc' # pc) => (pc' = "check" /\ r' = WriteBuf)]_vars
  /\ [][(pc' = "done" /\ pc \notin {"start", "loop", "done"}) =>
          (pc = "check" /\ r' = r)]_vars

\* C17 witness: a run with ASYNC returned before the cap because of a failure
\* flag.
C17_Witness ==
  ASYNC /\ StoppedByFlag /\ result.iterations >= 1 /\ result.iterations < L


\* the single-worker loop run on the inputs without failure: its final state
SeqLoopResult ==
  IterateUntil(Problem, EntryOf(Problem, InitialRanks(o)), E, L)

\* C18: when no failure flag is set the multi-worker loop and the
\* single-worker loop take the steps of an iteration in the same order and,
\* for the same inputs, return the same count and leave the same a, r and c
\* (and error): those of the iterations computed in sequence.
C18_OmpEqualsSeq ==
  /\ []((Returned /\ NoCrash) =>
          LET s == SeqLoopResult
          IN  /\ result.iterations = s.l
              /\ a = s.a /\ r = s.r /\ c = s.c /\ el = s.el)
  /\ [][(pc' # pc /\ pc \in {"teleport", "calc", "mult", "error", "swap"})
          => pc' = StepAfter(pc)]_vars

\* C18 witness: a multi-worker run with dead-end handling on a graph with a
\* dead end returned after two iterations without failure, the ranks still
\* changing.
C18_Witness ==
  /\ o.omp /\ Returned /\ NoCrash /\ DEAD /\ HasDeadEnd /\ ~ASYNC
  /\ result.iterations = 2 /\ el > 0


\* C19: with L >= 1 the loop performs one complete iteration before any stop
\* condition is evaluated: a check is reached only with l >= 1, and the loop
\* returns a count >= 1 after a complete sweep of the affected vertices, with
\* the contributions recomputed from the ranks in r, also when a failure flag
\* was set on entry or the initial ranks were already converged.
C19_AtLeastOneIteration ==
  /\ pc = "check" => (l >= 1 /\ began >= 1)
  /\ (Returned /\ L >= 1) =>
       /\ result.iterations >= 1 /\ began >= 1
       /\ todo = {} /\ recomputed = {v \in 1..N : vaff[v]}
       /\ c = multiplyValues(r, f)

\* C19 witness: a failure flag was set before the first iteration began, the
\* cap allowed more than one iteration and the loop returned the count 1.
C19_Witness ==
  Returned /\ IsCrashed /\ crashK = 1 /\ L >= 2 /\ result.iterations = 1


\* C20: with tolerance 0 the tolerance test el < E never stops the loop: a
\* check that sees no failure flag before the cap goes on to the next
\* iteration, and a run without failure returns exactly L iterations, also
\* when the error is exactly 0.
C20_ZeroToleranceNeverFires ==
  /\ []((Returned /\ E = 0 /\ NoCrash) => result.iterations = L)
  /\ [][(E = 0 /\ pc = "check" /\ ~IsCrashed /\ l < L /\ pc' # pc)
          => pc' = "teleport"]_vars

\* C20 witness: a run with tolerance 0 and without failure returned at the
\* cap L >= 2 with an error of exactly 0.
C20_Witness ==
  Returned /\ E = 0 /\ NoCrash /\ el = 0 /\ L >= 2 /\ result.iterations = L

=============================================================================
